---- MODULE Spec2Model ----
(***************************************************************************)
(* Cost and recommendation engine of the data-stack simulator              *)
(* (src/utils/calculations.py over the catalog of src/utils/constants.py). *)
(*                                                                         *)
(* Numbers.  The code computes in floating point; the model computes the   *)
(* same formulas exactly.  A money amount is the triple                    *)
(*     e5 * 10^-5 $  +  e9 * 10^-9 $  +  st * 10^-6 / 2^20 $               *)
(* (tool prices and per-record rates need 10^-5 $, the per-million-record  *)
(* surcharge 10^-9 $, a storage tier 10^-6/2^20 $), kept in the normal     *)
(* form 0 <= st < 2^17, 0 <= e9 < 10^4, which is unique because            *)
(* 2^17 st-units = 125 e9-units and 10^4 e9-units = 1 e5-unit.             *)
(* A storage size is held in units of 1/(1024*1024) GB.                    *)
(* Yearly growth g is given by the tenths f of its monthly factor,         *)
(* g = ((f/10)^12 - 1) * 100 percent, so that (1 + g/100)^(1/12) = f/10    *)
(* is exact: f = 10 is 0 %, f = 11 is 213.84.. %, f = 12 is 791.61.. %.    *)
(***************************************************************************)
EXTENDS Integers, Sequences, FiniteSets, TLC

\* The longest selected_sources list the engine is called with.
MaxSources == 2

\* Python's None (no catalog key, tool name or level is spelled this way).
None == "None"

\* A None passed where a dict is expected.
NoneDict == [None |-> "None"]

\* The empty dict {}.
EmptyDict == [k \in {} |-> "None"]

\* bool(d) of a dict-or-None.
Truthy(d) == d # NoneDict /\ DOMAIN d # {}

\* bool(s) of a str-or-None.
TruthyStr(s) == s # None /\ s # ""

\* d.get(k, default)
GetOr(d, k, default) == IF k \in DOMAIN d THEN d[k] ELSE default

\* d.get(k)
Get(d, k) == GetOr(d, k, None)

---------------------------------------------------------------------------
\* Money: exact amounts.

StPerCarry == 131072
E9PerCarry == 125
E9PerE5 == 10000

Money(e5, e9, st) ==
    LET c1 == st \div StPerCarry
        e9a == e9 + E9PerCarry * c1
    IN  [e5 |-> e5 + (e9a \div E9PerE5), e9 |-> e9a % E9PerE5, st |-> st % StPerCarry]

Zero == Money(0, 0, 0)

\* a + b
Add(a, b) == Money(a.e5 + b.e5, a.e9 + b.e9, a.st + b.st)

\* n * c storage units, for 0 <= c <= 16383 (so that no product passes 2^31)
StorageUnits(n, c) ==
    LET q == n \div StPerCarry
        r == n % StPerCarry
    IN  Money(0, E9PerCarry * (q * c + ((r * c) \div StPerCarry)), (r * c) % StPerCarry)

\* the part of an amount below one e5 unit, in units of 8 * 10^-9 / 2^20 $
Low(m) == m.e9 * StPerCarry + m.st * E9PerCarry

\* a < b
Less(a, b) ==
    LET d == a.e5 - b.e5
        one == E9PerE5 * StPerCarry
    IN  \/ d <= 0 - 2
        \/ d = 0 - 1 /\ Low(a) - Low(b) < one
        \/ d = 0 /\ Low(a) < Low(b)
        \/ d = 1 /\ Low(b) - Low(a) > one

RECURSIVE SumMoney(_)
\* sum(values) of a sequence of amounts
SumMoney(s) == IF s = <<>> THEN Zero ELSE Add(SumMoney(SubSeq(s, 1, Len(s) - 1)), s[Len(s)])

---------------------------------------------------------------------------
\* The catalog (src/utils/constants.py).

\* cost_per_record in 10^-5 $, storage_multiplier in tenths
DATA_CATEGORIES ==
    [transactional |-> [cost_per_record |-> 10, storage_multiplier |-> 15],
     product       |-> [cost_per_record |-> 5,  storage_multiplier |-> 20],
     marketing     |-> [cost_per_record |-> 15, storage_multiplier |-> 18],
     customer      |-> [cost_per_record |-> 20, storage_multiplier |-> 17]]

\* cost_per_gb in 10^-5 $, cost_per_hour in 10^-4 $, data_processing in 10^-3 $
CLOUD_PROVIDERS ==
    [aws |-> [storage |-> [standard          |-> [cost_per_gb |-> 2300],
                           infrequent_access |-> [cost_per_gb |-> 1250],
                           glacier           |-> [cost_per_gb |-> 400]],
              compute |-> [instances |-> [small  |-> [cost_per_hour |-> 116],
                                          medium |-> [cost_per_hour |-> 960],
                                          large  |-> [cost_per_hour |-> 1920]],
                           data_processing |-> 48]],
     gcp |-> [storage |-> [standard |-> [cost_per_gb |-> 2040],
                           nearline |-> [cost_per_gb |-> 1020],
                           coldline |-> [cost_per_gb |-> 400],
                           archive  |-> [cost_per_gb |-> 120]],
              compute |-> [instances |-> [small  |-> [cost_per_hour |-> 475],
                                          medium |-> [cost_per_hour |-> 950],
                                          large  |-> [cost_per_hour |-> 1900]],
                           data_processing |-> 45]],
     azure |-> [storage |-> [hot     |-> [cost_per_gb |-> 1840],
                             cool    |-> [cost_per_gb |-> 1000],
                             archive |-> [cost_per_gb |-> 99]],
                compute |-> [instances |-> [small  |-> [cost_per_hour |-> 80],
                                            medium |-> [cost_per_hour |-> 960],
                                            large  |-> [cost_per_hour |-> 1920]],
                             data_processing |-> 46]]]

\* base_price and seat_cost in whole $, in catalog order
TOOLS_DATA ==
    [extraction |-> << [name |-> "Fivetran", base_price |-> 500, complexity |-> 2],
                       [name |-> "Rivery",   base_price |-> 200, complexity |-> 2],
                       [name |-> "Stitch",   base_price |-> 400, complexity |-> 1],
                       [name |-> "Airbyte",  base_price |-> 300, complexity |-> 3] >>,
     modeling |-> << [name |-> "dbt",      base_price |-> 100, complexity |-> 2],
                     [name |-> "Dataform", base_price |-> 250, complexity |-> 2] >>,
     warehousing |-> << [name |-> "Snowflake", base_price |-> 1000, complexity |-> 2],
                        [name |-> "BigQuery",  base_price |-> 800,  complexity |-> 1],
                        [name |-> "Redshift",  base_price |-> 1200, complexity |-> 3] >>,
     visualization |-> << [name |-> "Tableau",  base_price |-> 70, seat_cost |-> 70, complexity |-> 2],
                          [name |-> "Power BI", base_price |-> 20, seat_cost |-> 20, complexity |-> 2],
                          [name |-> "Looker Studio", base_price |-> 0, seat_cost |-> 0, complexity |-> 1],
                          [name |-> "Looker Enterprise", base_price |-> 3000, seat_cost |-> 100,
                           complexity |-> 3] >>]

\* e5 units in one whole dollar
E5PerDollar == 100000

\* a whole-dollar amount
Dollars(n) == Money(n * E5PerDollar, 0, 0)

---------------------------------------------------------------------------
\* recommend_cloud_provider(data_volume, growth_rate)

VolumeThreshold == 10000000
GrowthThreshold == 50

\* Variant: the volume threshold itself counts as large.
recommend_cloud_provider_AtLeast(volume, growth) ==
    IF volume >= VolumeThreshold
    THEN IF growth > GrowthThreshold THEN "gcp" ELSE "aws"
    ELSE IF growth > GrowthThreshold THEN "gcp" ELSE "azure"

recommend_cloud_provider(volume, growth) ==
    IF volume > VolumeThreshold
    THEN IF growth > GrowthThreshold THEN "gcp" ELSE "aws"
    ELSE IF growth > GrowthThreshold THEN "gcp" ELSE "azure"

---------------------------------------------------------------------------
\* An exception leaving a function, and the test for it.
Raise(e) == [raised |-> e]
Raised(r) == "raised" \in DOMAIN r

\* Variant: the hot and the warm shares are exchanged.
storage_distribution_Exchanged == [hot |-> 2, warm |-> 7, cold |-> 1]

\* storage_distribution, in tenths
storage_distribution == [hot |-> 7, warm |-> 2, cold |-> 1]

\* The keys of storage_costs in insertion order, each with its share and
\* the catalog tier whose rate it uses.
StorageTiers(provider_key) ==
    IF provider_key = "aws"
    THEN << <<"standard", "hot", "standard">>, <<"ia", "warm", "infrequent_access">>,
            <<"glacier", "cold", "glacier">> >>
    ELSE IF provider_key = "gcp"
    THEN << <<"standard", "hot", "standard">>, <<"nearline", "warm", "nearline">>,
            <<"coldline", "cold", "coldline">> >>
    ELSE << <<"hot", "hot", "hot">>, <<"cool", "warm", "cool">>, <<"archive", "cold", "archive">> >>

\* Variant: one day of operation.
compute_hours_OneDay == 24 * 1

\* 24 * 30
compute_hours == 24 * 30

\* Variant: the fallback provider is gcp.
ResolveProviderKeyGcp(provider_key) ==
    IF ~TruthyStr(provider_key) \/ provider_key \notin DOMAIN CLOUD_PROVIDERS
    THEN "gcp"
    ELSE provider_key

\* The provider key calculate_detailed_cloud_costs works with.
ResolveProviderKey(provider_key) ==
    IF ~TruthyStr(provider_key) \/ provider_key \notin DOMAIN CLOUD_PROVIDERS
    THEN "aws"
    ELSE provider_key

\* calculate_detailed_cloud_costs(provider_key, storage_gb, monthly_records, historical_records)
\* with storage_gb in units of 1/(1024*1024) GB
calculate_detailed_cloud_costs(provider_key, storage_gb, monthly_records, historical_records) ==
    LET key == ResolveProviderKey(provider_key)
        provider == CLOUD_PROVIDERS[key]
        tiers == StorageTiers(key)
        TierCost(t) == StorageUnits(storage_gb,
                           storage_distribution[t[2]] * provider.storage[t[3]].cost_per_gb)
        storage_costs == [k \in {tiers[i][1] : i \in 1..Len(tiers)} |->
                             TierCost(CHOOSE t \in {tiers[i] : i \in 1..Len(tiers)} : t[1] = k)]
        storage_values == [i \in 1..Len(tiers) |-> storage_costs[tiers[i][1]]]
        compute_instance == provider.compute.instances.medium
        compute_costs ==
            [instance |-> Money(compute_instance.cost_per_hour * compute_hours * 10, 0, 0),
             processing |-> Money(0, monthly_records * provider.compute.data_processing, 0)]
        compute_values == << compute_costs.instance, compute_costs.processing >>
    IN  [storage_costs |-> storage_costs,
         compute_costs |-> compute_costs,
         total_storage_cost |-> SumMoney(storage_values),
         total_compute_cost |-> SumMoney(compute_values),
         total_cost |-> Add(SumMoney(storage_values), SumMoney(compute_values))]

\* record_size_kb
record_size_kb == 1

\* Variant: the storage leaves the historical records out.
SourceFigures_MonthlyOnly(source, volume_estimates) ==
    LET category == DATA_CATEGORIES[source]
        estimates == GetOr(volume_estimates, source, EmptyDict)
        daily_records == GetOr(estimates, "daily", 0)
        monthly_growth_tenths == GetOr(estimates, "growth", 0)
        monthly_records == daily_records * 3 * (10 + monthly_growth_tenths)
        historical_records == GetOr(estimates, "historical", 0)
    IN  [monthly_records |-> monthly_records,
         historical_records |-> historical_records,
         storage_gb |-> monthly_records * record_size_kb,
         processing_cost |-> Money(monthly_records * category.cost_per_record, 0, 0)]

\* The per-source figures of one pass of the loop of calculate_costs.
\* estimates.growth is the monthly growth rate in tenths (see the header).
SourceFigures(source, volume_estimates) ==
    LET category == DATA_CATEGORIES[source]
        estimates == GetOr(volume_estimates, source, EmptyDict)
        daily_records == GetOr(estimates, "daily", 0)
        monthly_growth_tenths == GetOr(estimates, "growth", 0)
        monthly_records == daily_records * 3 * (10 + monthly_growth_tenths)
        historical_records == GetOr(estimates, "historical", 0)
    IN  [monthly_records |-> monthly_records,
         historical_records |-> historical_records,
         storage_gb |-> (historical_records + monthly_records) * record_size_kb,
         processing_cost |-> Money(monthly_records * category.cost_per_record, 0, 0)]

RECURSIVE SourceLoop(_, _)
\* The accumulators of calculate_costs after the loop over selected_sources.
SourceLoop(selected_sources, volume_estimates) ==
    IF selected_sources = <<>>
    THEN [total_storage_gb |-> 0, total_monthly_records |-> 0, total_historical_records |-> 0,
          processing_cost |-> Zero, cost_breakdown |-> EmptyDict]
    ELSE LET n == Len(selected_sources)
             before == SourceLoop(SubSeq(selected_sources, 1, n - 1), volume_estimates)
             source == selected_sources[n]
             fig == SourceFigures(source, volume_estimates)
             entry == [monthly_records |-> fig.monthly_records, storage_gb |-> fig.storage_gb,
                       processing_cost |-> fig.processing_cost]
         IN  [total_storage_gb |-> before.total_storage_gb + fig.storage_gb,
              total_monthly_records |-> before.total_monthly_records + fig.monthly_records,
              total_historical_records |->
                  before.total_historical_records + fig.historical_records,
              processing_cost |-> Add(before.processing_cost, fig.processing_cost),
              cost_breakdown |->
                  [s \in DOMAIN before.cost_breakdown \cup {source} |->
                      IF s = source THEN entry ELSE before.cost_breakdown[s]]]

\* The infrastructure calculate_costs substitutes for a missing one.
DefaultInfrastructure == [type |-> "new", provider |-> "aws", preferred_provider |-> None]

\* Variant: the total leaves the processing cost out.
CostBreakdownCloudOnly(acc, cloud_costs, provider_key, volume_estimates) ==
    [total_storage_gb |-> acc.total_storage_gb,
     total_records_per_month |-> acc.total_monthly_records,
     storage_cost |-> cloud_costs.total_storage_cost,
     compute_cost |-> cloud_costs.total_compute_cost,
     processing_cost |-> acc.processing_cost,
     total_cost |-> cloud_costs.total_cost,
     breakdown |-> acc.cost_breakdown,
     cloud_costs |-> cloud_costs,
     provider |-> provider_key,
     volume_estimates |-> volume_estimates]

\* The record calculate_costs returns.
CostBreakdown(acc, cloud_costs, provider_key, volume_estimates) ==
    [total_storage_gb |-> acc.total_storage_gb,
     total_records_per_month |-> acc.total_monthly_records,
     storage_cost |-> cloud_costs.total_storage_cost,
     compute_cost |-> cloud_costs.total_compute_cost,
     processing_cost |-> acc.processing_cost,
     total_cost |-> Add(cloud_costs.total_cost, acc.processing_cost),
     breakdown |-> acc.cost_breakdown,
     cloud_costs |-> cloud_costs,
     provider |-> provider_key,
     volume_estimates |-> volume_estimates]

\* calculate_costs(infrastructure, selected_sources, volume_estimates)
calculate_costs(infrastructure, selected_sources, volume_estimates) ==
    LET infra == IF ~Truthy(infrastructure) THEN DefaultInfrastructure ELSE infrastructure
        acc == SourceLoop(selected_sources, volume_estimates)
        provider_key == IF infra["type"] = "existing"
                        THEN Get(infra, "provider")
                        ELSE Get(infra, "preferred_provider")
        cloud_costs == calculate_detailed_cloud_costs(provider_key, acc.total_storage_gb,
                           acc.total_monthly_records, acc.total_historical_records)
    IN  IF \E s \in {selected_sources[i] : i \in 1..Len(selected_sources)} :
               s \notin DOMAIN DATA_CATEGORIES
        THEN Raise("KeyError")
        ELSE IF "type" \notin DOMAIN infra
        THEN Raise("KeyError")
        ELSE CostBreakdown(acc, cloud_costs, provider_key, volume_estimates)

---------------------------------------------------------------------------
\* Python's list operations.

\* min(seq, key): the index of the first element with the least key
FirstMin(keys) ==
    CHOOSE i \in 1..Len(keys) :
        /\ \A j \in 1..Len(keys) : keys[i] <= keys[j]
        /\ \A j \in 1..(i - 1) : keys[j] > keys[i]

\* max(seq, key): the index of the first element with the greatest key
FirstMax(keys) ==
    CHOOSE i \in 1..Len(keys) :
        /\ \A j \in 1..Len(keys) : keys[i] >= keys[j]
        /\ \A j \in 1..(i - 1) : keys[j] < keys[i]

\* sorted(seq, key) / list.sort(key): the stable order of the indexes 1..n,
\* where before[<<i, j>>] says that the key of element i is less than that of j
SortOrder(n, before) ==
    LET Rank(i) == 1 + Cardinality({j \in 1..n :
                           \/ before[<<j, i>>]
                           \/ ~before[<<i, j>>] /\ j < i})
    IN  [r \in 1..n |-> CHOOSE i \in 1..n : Rank(i) = r]

\* next(t for t in tools if t['name'] == name)
ToolNamed(tools, name) == tools[CHOOSE i \in 1..Len(tools) :
                                    /\ tools[i].name = name
                                    /\ \A j \in 1..(i - 1) : tools[j].name # name]

---------------------------------------------------------------------------
\* Variant: a tool of another name pays the highest rate.
ExtractionRate_OtherHighest(name) ==
    IF name = "Fivetran" THEN 50000
    ELSE IF name = "Stitch" THEN 40000
    ELSE IF name = "Airbyte" THEN 30000
    ELSE 50000

\* calculate_extraction_cost(tool, monthly_records); the rate is in 10^-5 $
\* per thousand rows
ExtractionRate(name) ==
    IF name = "Fivetran" THEN 50000
    ELSE IF name = "Stitch" THEN 40000
    ELSE 30000

calculate_extraction_cost(tool, monthly_records) ==
    LET rows_in_thousands == (monthly_records + 999) \div 1000
    IN  Money(tool.base_price * E5PerDollar + rows_in_thousands * ExtractionRate(tool.name), 0, 0)

\* The provider get_stack_recommendations works with.
StackProvider(infrastructure) ==
    IF TruthyStr(Get(infrastructure, "provider"))
    THEN Get(infrastructure, "provider")
    ELSE Get(infrastructure, "preferred_provider")

\* warehousing_options of get_stack_recommendations
warehousing_options(provider) ==
    LET Keep(warehouse) ==
            \/ provider = "gcp" /\ warehouse.name = "BigQuery"
            \/ provider = "aws" /\ warehouse.name = "Snowflake"
            \/ provider = "azure" /\ warehouse.name \in {"BigQuery", "Snowflake"}
    IN  SelectSeq(TOOLS_DATA.warehousing, Keep)

\* Variant: the advanced level takes the first premium tool as well.
get_extraction_tool_FirstForBoth(level) ==
    LET tools == TOOLS_DATA.extraction
        IsSimple(t) == t.name \in {"Airbyte", "Stitch"}
        IsPremium(t) == t.name \in {"Fivetran", "Rivery"}
        simple_tools == SelectSeq(tools, IsSimple)
        premium_tools == SelectSeq(tools, IsPremium)
        order == SortOrder(Len(premium_tools),
                     [p \in (1..Len(premium_tools)) \X (1..Len(premium_tools)) |->
                         premium_tools[p[1]].base_price < premium_tools[p[2]].base_price])
    IN  IF level = "simple"
        THEN simple_tools[FirstMin([i \in 1..Len(simple_tools) |->
                 simple_tools[i].base_price + simple_tools[i].complexity * 50])]
        ELSE premium_tools[order[1]]

\* get_extraction_tool(level)
get_extraction_tool(level) ==
    LET tools == TOOLS_DATA.extraction
        IsSimple(t) == t.name \in {"Airbyte", "Stitch"}
        IsPremium(t) == t.name \in {"Fivetran", "Rivery"}
        simple_tools == SelectSeq(tools, IsSimple)
        premium_tools == SelectSeq(tools, IsPremium)
        order == SortOrder(Len(premium_tools),
                     [p \in (1..Len(premium_tools)) \X (1..Len(premium_tools)) |->
                         premium_tools[p[1]].base_price < premium_tools[p[2]].base_price])
    IN  IF level = "simple"
        THEN simple_tools[FirstMin([i \in 1..Len(simple_tools) |->
                 simple_tools[i].base_price + simple_tools[i].complexity * 50])]
        ELSE IF level = "balanced" THEN premium_tools[order[1]] ELSE premium_tools[order[2]]

\* Variant: the balanced level takes the first tool of the sorted list.
get_modeling_tool_First(level) ==
    LET tools == TOOLS_DATA.modeling
        Score(x) == x.base_price + x.complexity * 100
        order == SortOrder(Len(tools),
                     [p \in (1..Len(tools)) \X (1..Len(tools)) |->
                         Score(tools[p[1]]) < Score(tools[p[2]])])
    IN  IF level = "simple"
        THEN tools[FirstMin([i \in 1..Len(tools) |-> tools[i].base_price])]
        ELSE IF level = "advanced"
        THEN tools[FirstMax([i \in 1..Len(tools) |-> tools[i].complexity])]
        ELSE tools[order[1]]

\* get_modeling_tool(level)
get_modeling_tool(level) ==
    LET tools == TOOLS_DATA.modeling
        Score(x) == x.base_price + x.complexity * 100
        order == SortOrder(Len(tools),
                     [p \in (1..Len(tools)) \X (1..Len(tools)) |->
                         Score(tools[p[1]]) < Score(tools[p[2]])])
    IN  IF level = "simple"
        THEN tools[FirstMin([i \in 1..Len(tools) |-> tools[i].base_price])]
        ELSE IF level = "advanced"
        THEN tools[FirstMax([i \in 1..Len(tools) |-> tools[i].complexity])]
        ELSE tools[order[2]]

\* The levels in the order of stacks.items(), and each level's visualization tool.
Levels == << "simple", "balanced", "advanced" >>

\* Variant: the balanced stack shows Tableau.
VisualizationName_Tableau(level) ==
    IF level = "simple" THEN "Looker Studio"
    ELSE IF level = "balanced" THEN "Tableau"
    ELSE "Looker Enterprise"

VisualizationName(level) ==
    IF level = "simple" THEN "Looker Studio"
    ELSE IF level = "balanced" THEN "Power BI"
    ELSE "Looker Enterprise"

\* stacks[level]
BuildStack(level, options) ==
    [extraction |-> get_extraction_tool(level),
     modeling |-> get_modeling_tool(level),
     warehousing |-> options[1],
     visualization |-> ToolNamed(TOOLS_DATA.visualization, VisualizationName(level))]

\* Variant: the modeling layer stays in the stack.
working_stack_Keep(stack, exclude_modeling_) == stack

\* working_stack: a copy of the stack, without the modeling layer if excluded.
working_stack(stack, exclude_modeling_) ==
    IF exclude_modeling_
    THEN [k \in DOMAIN stack \ {"modeling"} |-> stack[k]]
    ELSE stack

\* Variant: the thousands of models are rounded up.
monthly_models_Ceil(costs_) == (costs_.total_records_per_month + 999) \div 1000

\* monthly_models = int(costs['total_records_per_month'] / 1000)
monthly_models(costs_) == costs_.total_records_per_month \div 1000

modeling_note_text ==
    "Rivery provides built-in data modeling capabilities that can be leveraged without additional tools."

\* Variant: every recommendation carries the note.
modeling_note_Always(working_stack_) == modeling_note_text

\* modeling_note: the note for Rivery, None for any other extraction tool
modeling_note(working_stack_) ==
    IF working_stack_.extraction.name = "Rivery" THEN modeling_note_text ELSE None

\* One pass of the loop over stacks.items(): the recommendation of a level.
Recommendation(level, stack, monthly_active_rows, models, seats, exclude) ==
    LET ws == working_stack(stack, exclude)
        base_costs ==
            [extraction |-> calculate_extraction_cost(ws.extraction, monthly_active_rows),
             warehousing |-> Dollars(ws.warehousing.base_price),
             visualization |->
                 Dollars(GetOr(ws.visualization, "seat_cost", 0) * seats)]
        base_values == << base_costs.extraction, base_costs.warehousing, base_costs.visualization >>
        modeling_cost == Money(models * 10
                                 + ws.modeling.base_price * E5PerDollar, 0, 0)
        costs_dict == IF exclude
                      THEN base_costs
                      ELSE [k \in DOMAIN base_costs \cup {"modeling"} |->
                               IF k = "modeling" THEN modeling_cost ELSE base_costs[k]]
        total_cost == IF exclude
                      THEN SumMoney(base_values)
                      ELSE SumMoney(Append(base_values, modeling_cost))
    IN  [level |-> level,
         stack |-> ws,
         costs |-> [k \in DOMAIN costs_dict \cup {"total"} |->
                       IF k = "total" THEN total_cost ELSE costs_dict[k]],
         modeling_note |-> modeling_note(ws)]

\* Variant: the list is sorted by total, dearest first.
SortedByTotal_Descending(recs) ==
    LET order == SortOrder(Len(recs),
                     [p \in (1..Len(recs)) \X (1..Len(recs)) |->
                         Less(recs[p[2]].costs.total, recs[p[1]].costs.total)])
    IN  [r \in 1..Len(recs) |-> recs[order[r]]]

\* sorted by costs.total: the list after recommendations.sort(...)
SortedByTotal(recs) ==
    LET order == SortOrder(Len(recs),
                     [p \in (1..Len(recs)) \X (1..Len(recs)) |->
                         Less(recs[p[1]].costs.total, recs[p[2]].costs.total)])
    IN  [r \in 1..Len(recs) |-> recs[order[r]]]

\* Variant: the list is sorted by total and left so.
SimpleFirstSortOnly(recommendations_) ==
    CHOOSE result \in {SortedByTotal(recs) : recs \in {recommendations_}} : TRUE

\* The end of get_stack_recommendations: sort by total, then put simple first.
\* (The lists are bound once each, as the code's local variable is.)
SimpleFirst(recommendations_) ==
    CHOOSE result \in
        {IF sorted[1].level # "simple"
         THEN LET simple_idx == CHOOSE i \in 1..Len(sorted) :
                                    /\ sorted[i].level = "simple"
                                    /\ \A j \in 1..(i - 1) : sorted[j].level # "simple"
              IN  [i \in 1..Len(sorted) |->
                      IF i = 1 THEN sorted[simple_idx]
                      ELSE IF i = simple_idx THEN sorted[1] ELSE sorted[i]]
         ELSE sorted :
            sorted \in {SortedByTotal(recs) : recs \in {recommendations_}}} : TRUE

\* get_stack_recommendations(costs, infrastructure, visualization_seats, exclude_modeling)
get_stack_recommendations(costs_, infrastructure_, visualization_seats_, exclude_modeling_) ==
    LET monthly_active_rows == costs_.total_records_per_month
        options == warehousing_options(StackProvider(infrastructure_))
    IN  IF infrastructure_ = NoneDict THEN Raise("AttributeError")
        ELSE IF options = <<>> THEN Raise("IndexError")
        ELSE [list |-> SimpleFirst(
                 [i \in 1..Len(Levels) |->
                     Recommendation(Levels[i], BuildStack(Levels[i], options),
                         monthly_active_rows, monthly_models(costs_), visualization_seats_,
                         exclude_modeling_)])]

---------------------------------------------------------------------------
\* The session state (src/utils/state.py).  st.session_state is a mapping; the
\* AppState object is its value at the key "state".

\* AppState() with the four fields init_session_state assigns
NewAppState ==
    [step |-> 1,
     infrastructure |-> EmptyDict,
     selected_sources |-> << >>,
     volume_estimates |-> EmptyDict,
     visualization_seats |-> 1,
     excluded_components |-> << >>]

\* Variant: the state is made anew on every call.
init_session_state_Always(session_state) ==
    [k \in DOMAIN session_state \cup {"state"} |->
        IF k = "state" THEN NewAppState ELSE session_state[k]]

\* init_session_state()
init_session_state(session_state) ==
    IF "state" \notin DOMAIN session_state
    THEN [k \in DOMAIN session_state \cup {"state"} |->
             IF k = "state" THEN NewAppState ELSE session_state[k]]
    ELSE session_state

\* update_state(**kwargs): setattr for each name the state has
update_state(session_state, kwargs) ==
    [session_state EXCEPT !.state =
        [key \in DOMAIN @ |-> IF key \in DOMAIN kwargs THEN kwargs[key] ELSE @[key]]]

---------------------------------------------------------------------------
\* What a call leaves behind.  Python passes the caller's dicts and lists
\* themselves, and the tables of constants.py are module globals, so a
\* function could change them in place; these are the objects after a call.

\* Variant: the loop takes each estimate out of the mapping (pop for get).
calculate_costs_leaves_Popped(infrastructure, selected_sources, volume_estimates, tables) ==
    [infrastructure |-> infrastructure,
     selected_sources |-> selected_sources,
     volume_estimates |->
         IF volume_estimates = NoneDict THEN volume_estimates
         ELSE [k \in DOMAIN volume_estimates
                         \ {selected_sources[i] : i \in 1..Len(selected_sources)} |->
                  volume_estimates[k]],
     tables |-> tables]

\* calculate_costs: `infrastructure = {...}` binds the local name to a new
\* dict; selected_sources is iterated; volume_estimates and DATA_CATEGORIES
\* are read with get and []; every assignment to a key is to cost_breakdown
\* or to the returned dict, both made by the call.
calculate_costs_leaves(infrastructure, selected_sources, volume_estimates, tables) ==
    [infrastructure |-> infrastructure,
     selected_sources |-> selected_sources,
     volume_estimates |-> volume_estimates,
     tables |-> tables]

\* get_stack_recommendations: costs and infrastructure are read with [] and
\* get; the stacks are new dicts whose values are the Tool entries of
\* TOOLS_DATA; `working_stack = stack.copy()` is a new dict again and
\* pop('modeling') takes the key out of that copy, not out of a Tool entry
\* or a table; append, sort and the swap act on the new recommendations list.
get_stack_recommendations_leaves(costs_, infrastructure_, tables_, exclude_modeling_) ==
    [costs |-> costs_,
     infrastructure |-> infrastructure_,
     tables |-> tables_]

---------------------------------------------------------------------------
\* The calls.  A caller holds the argument records, calls calculate_costs and
\* hands its result to get_stack_recommendations, as render_recommendation_step
\* does; recommend_cloud_provider is called on its own.

VARIABLES pc, infrastructure, selected_sources, volume_estimates, costs,
          visualization_seats, exclude_modeling, recommendations,
          data_volume, growth_rate, cloud_provider,
          tool, monthly_records, extraction_cost,
          step, tables, session_state, kwargs

vars == << pc, infrastructure, selected_sources, volume_estimates, costs,
           visualization_seats, exclude_modeling, recommendations,
           data_volume, growth_rate, cloud_provider,
           tool, monthly_records, extraction_cost, step, tables,
           session_state, kwargs >>

\* st.session_state as the functions of state.py see it, and the arguments of
\* the last update_state(**kwargs) call made on it.
session_vars == << session_state, kwargs >>

\* No call made yet.
NotCalled == [called |-> FALSE]

\* The provider values a caller may hold: unset, the catalog keys, and a key
\* the catalog does not have.  An infrastructure is missing (None), empty,
\* or a record with a type and the two provider fields.
ProviderValues == {None, "aws", "gcp", "azure", "oracle"}

Infrastructures ==
    {NoneDict, EmptyDict}
        \cup [type : {"existing", "new"}, provider : ProviderValues,
              preferred_provider : ProviderValues]

RECURSIVE ListsOf(_, _)
\* The lists of at most n distinct elements of S.
ListsOf(S, n) ==
    IF n = 0 THEN {<<>>}
    ELSE LET shorter == ListsOf(S, n - 1)
             longer == {Append(l, x) : l \in shorter, x \in S}
         IN  shorter \cup {l \in longer : \A i, j \in 1..Len(l) : i # j => l[i] # l[j]}

SourceLists == ListsOf(DOMAIN DATA_CATEGORIES, MaxSources)

\* Volume estimates: the scenario of the specification, a small source with
\* growth, a large one with growth, and one with only a daily figure.
EstimateScenario == [daily |-> 1000, historical |-> 10000, growth |-> 0]
EstimateSmall == [daily |-> 50, historical |-> 0, growth |-> 1]
EstimateLarge == [daily |-> 40000, historical |-> 500000, growth |-> 2]
EstimateDailyOnly == [daily |-> 7]
EstimateZero == [daily |-> 0, historical |-> 0, growth |-> 0]

VolumeMaps ==
    {EmptyDict,
     [s \in {"transactional"} |-> EstimateScenario],
     [transactional |-> EstimateScenario, product |-> EstimateSmall,
      marketing |-> EstimateLarge, customer |-> EstimateDailyOnly],
     [transactional |-> EstimateLarge, product |-> EstimateLarge,
      marketing |-> EstimateSmall, customer |-> EstimateScenario],
     [product |-> EstimateSmall, customer |-> EstimateZero]}

\* The slider of render_recommendation_step runs from MinSeats to MaxSeats.
MinSeats == 1
MaxSeats == 50
SeatChoices == {MinSeats, 2, 3, 10, 11, MaxSeats}

DataVolumes == {0, VolumeThreshold - 1, VolumeThreshold, VolumeThreshold + 1, 2 * VolumeThreshold}
GrowthRates == {0, GrowthThreshold - 1, GrowthThreshold, GrowthThreshold + 1, 1000}

\* The tools calculate_extraction_cost is called with: the extraction catalog
\* and a tool of another name; and the record counts, around the thousands.
ExtractionTools ==
    {TOOLS_DATA.extraction[i] : i \in 1..Len(TOOLS_DATA.extraction)}
        \cup {[name |-> "Hevo", base_price |-> 150, complexity |-> 1]}

RecordCounts == {0, 1, 999, 1000, 1001, 30000, 2500500}

\* The module-level tables of constants.py, as the interpreter holds them.
ModuleTables ==
    [DATA_CATEGORIES |-> DATA_CATEGORIES,
     CLOUD_PROVIDERS |-> CLOUD_PROVIDERS,
     TOOLS_DATA |-> TOOLS_DATA]

Init ==
    /\ pc = "start"
    /\ infrastructure = EmptyDict
    /\ selected_sources = <<>>
    /\ volume_estimates = EmptyDict
    /\ costs = NotCalled
    /\ visualization_seats = MinSeats
    /\ exclude_modeling = FALSE
    /\ recommendations = NotCalled
    /\ data_volume = 0
    /\ growth_rate = 0
    /\ cloud_provider = None
    /\ tool = None
    /\ monthly_records = 0
    /\ extraction_cost = NotCalled
    /\ step = 1
    /\ tables = ModuleTables
    /\ session_state = EmptyDict
    /\ kwargs = EmptyDict

\* costs = calculate_costs(infrastructure, selected_sources, volume_estimates)
CalculateCosts ==
    /\ pc = "start"
    /\ \E infra \in Infrastructures, sources \in SourceLists, estimates \in VolumeMaps :
          LET left == calculate_costs_leaves(infra, sources, estimates, tables)
          IN  /\ costs' = calculate_costs(infra, sources, estimates)
              /\ infrastructure' = left.infrastructure
              /\ selected_sources' = left.selected_sources
              /\ volume_estimates' = left.volume_estimates
              /\ tables' = left.tables
    /\ pc' = "costs"
    /\ UNCHANGED << visualization_seats, exclude_modeling, recommendations,
                    data_volume, growth_rate, cloud_provider,
                    tool, monthly_records, extraction_cost, step, session_vars >>

\* recommendations = get_stack_recommendations(costs, infrastructure, seats, exclude_modeling)
GetStackRecommendations ==
    /\ pc = "costs"
    /\ ~Raised(costs)
    /\ \E seats \in SeatChoices, exclude \in BOOLEAN :
          /\ visualization_seats' = seats
          /\ exclude_modeling' = exclude
          /\ recommendations' = get_stack_recommendations(costs, infrastructure, seats, exclude)
          /\ LET left == get_stack_recommendations_leaves(costs, infrastructure, tables, exclude)
             IN  /\ costs' = left.costs
                 /\ infrastructure' = left.infrastructure
                 /\ tables' = left.tables
    /\ pc' = "recommended"
    /\ UNCHANGED << selected_sources, volume_estimates,
                    data_volume, growth_rate, cloud_provider,
                    tool, monthly_records, extraction_cost, step, session_vars >>

\* cloud_provider = recommend_cloud_provider(data_volume, growth_rate)
RecommendCloudProvider ==
    /\ pc = "start"
    /\ \E volume \in DataVolumes, growth \in GrowthRates :
          /\ data_volume' = volume
          /\ growth_rate' = growth
          /\ cloud_provider' = recommend_cloud_provider(volume, growth)
    /\ pc' = "provider"
    /\ UNCHANGED << infrastructure, selected_sources, volume_estimates, costs,
                    visualization_seats, exclude_modeling, recommendations,
                    tool, monthly_records, extraction_cost, step, tables, session_vars >>

\* extraction_cost = calculate_extraction_cost(tool, monthly_records)
CalculateExtractionCost ==
    /\ pc = "start"
    /\ \E t \in ExtractionTools, records \in RecordCounts :
          /\ tool' = t
          /\ monthly_records' = records
          /\ extraction_cost' = calculate_extraction_cost(t, records)
    /\ pc' = "extraction"
    /\ UNCHANGED << infrastructure, selected_sources, volume_estimates, costs,
                    visualization_seats, exclude_modeling, recommendations,
                    data_volume, growth_rate, cloud_provider, step, tables, session_vars >>

Next ==
    \/ CalculateCosts
    \/ GetStackRecommendations
    \/ RecommendCloudProvider
    \/ CalculateExtractionCost

Spec == Init /\ [][Next]_vars

---------------------------------------------------------------------------
\* The wizard (src/app.py over src/utils/state.py).  The session's AppState
\* is held in step, infrastructure, selected_sources, volume_estimates and
\* visualization_seats; each action is one run of main() in which the user
\* presses a button of the step shown, or, at step 5, moves a control.

\* The variables the wizard leaves alone at steps 1 to 4.
review_vars == << costs, exclude_modeling, recommendations, visualization_seats >>

\* The variables of the calls made outside the wizard.
other_call_vars == << data_volume, growth_rate, cloud_provider,
                      tool, monthly_records, extraction_cost >>

\* The figures a user enters for one source at step 3.
WizardEstimates == {EstimateScenario, EstimateSmall}

\* The positions the user leaves the slider of step 5 at.
WizardSeats == {MinSeats, 10, MaxSeats}

\* init_session_state(): the AppState of a new session
WizardInit ==
    /\ pc = "wizard"
    /\ step = 1
    /\ infrastructure = EmptyDict
    /\ selected_sources = <<>>
    /\ volume_estimates = EmptyDict
    /\ visualization_seats = 1
    /\ costs = NotCalled
    /\ exclude_modeling = FALSE
    /\ recommendations = NotCalled
    /\ data_volume = 0
    /\ growth_rate = 0
    /\ cloud_provider = None
    /\ tool = None
    /\ monthly_records = 0
    /\ extraction_cost = NotCalled
    /\ tables = ModuleTables
    /\ session_state = EmptyDict
    /\ kwargs = EmptyDict

\* Variant: the preferred provider of a new setup is not stored.
InfrastructureNext_NoPreferred ==
    /\ pc = "wizard" /\ step = 1
    /\ \E setup_type \in {"Yes", "No"}, selected_provider \in DOMAIN CLOUD_PROVIDERS :
          /\ TruthyStr(selected_provider)
          /\ infrastructure' =
                 [type |-> IF setup_type = "Yes" THEN "existing" ELSE "new",
                  provider |-> IF setup_type = "Yes" THEN selected_provider ELSE None,
                  preferred_provider |-> None]
    /\ step' = 2
    /\ UNCHANGED << pc, selected_sources, volume_estimates, review_vars, other_call_vars, tables, session_vars >>

\* render_infrastructure_step, "Next" pressed
InfrastructureNext ==
    /\ pc = "wizard" /\ step = 1
    /\ \E setup_type \in {"Yes", "No"}, selected_provider \in DOMAIN CLOUD_PROVIDERS :
          /\ TruthyStr(selected_provider)
          /\ infrastructure' =
                 [type |-> IF setup_type = "Yes" THEN "existing" ELSE "new",
                  provider |-> IF setup_type = "Yes" THEN selected_provider ELSE None,
                  preferred_provider |-> IF setup_type = "No" THEN selected_provider ELSE None]
    /\ step' = 2
    /\ UNCHANGED << pc, selected_sources, volume_estimates, review_vars, other_call_vars, tables, session_vars >>

\* render_data_sources_step, "Back" pressed: the selection shown is dropped
DataSourcesBack ==
    /\ pc = "wizard" /\ step = 2
    /\ step' = 1
    /\ UNCHANGED << pc, infrastructure, selected_sources, volume_estimates,
                    review_vars, other_call_vars, tables, session_vars >>

\* render_data_sources_step, "Next" pressed with the sources `selected`
DataSourcesNext ==
    /\ pc = "wizard" /\ step = 2
    /\ \E selected \in SourceLists :
          /\ Len(selected) # 0
          /\ selected_sources' = selected
    /\ step' = 3
    /\ UNCHANGED << pc, infrastructure, volume_estimates, review_vars, other_call_vars, tables, session_vars >>

\* render_volume_estimation_step, "Back" pressed (in either branch)
VolumeBack ==
    /\ pc = "wizard" /\ step = 3
    /\ step' = 2
    /\ UNCHANGED << pc, infrastructure, selected_sources, volume_estimates,
                    review_vars, other_call_vars, tables, session_vars >>

\* Variant: the entered estimates are added to the ones the session has.
VolumeNext_Merged ==
    /\ pc = "wizard" /\ step = 3
    /\ selected_sources # <<>>
    /\ \E entered \in [{selected_sources[i] : i \in 1..Len(selected_sources)} -> WizardEstimates] :
          volume_estimates' =
              [k \in DOMAIN volume_estimates \cup DOMAIN entered |->
                  IF k \in DOMAIN entered THEN entered[k] ELSE volume_estimates[k]]
    /\ step' = 4
    /\ UNCHANGED << pc, infrastructure, selected_sources, review_vars, other_call_vars, tables, session_vars >>

\* render_volume_estimation_step, "Next" pressed: the estimates are rebuilt,
\* one entry for each source of state.selected_sources
VolumeNext ==
    /\ pc = "wizard" /\ step = 3
    /\ selected_sources # <<>>
    /\ \E entered \in [{selected_sources[i] : i \in 1..Len(selected_sources)} -> WizardEstimates] :
          volume_estimates' = entered
    /\ step' = 4
    /\ UNCHANGED << pc, infrastructure, selected_sources, review_vars, other_call_vars, tables, session_vars >>

\* Variant: step 5 has a Back button as well.
ReviewBack_AlsoFromFive ==
    /\ pc = "wizard" /\ step \in {4, 5}
    /\ step' = step - 1
    /\ UNCHANGED << pc, infrastructure, selected_sources, volume_estimates,
                    review_vars, other_call_vars, tables, session_vars >>

\* render_review_step, "Back" pressed
ReviewBack ==
    /\ pc = "wizard" /\ step = 4
    /\ step' = 3
    /\ UNCHANGED << pc, infrastructure, selected_sources, volume_estimates,
                    review_vars, other_call_vars, tables, session_vars >>

\* render_review_step, "Next" pressed
ReviewNext ==
    /\ pc = "wizard" /\ step = 4
    /\ step' = 5
    /\ UNCHANGED << pc, infrastructure, selected_sources, volume_estimates,
                    review_vars, other_call_vars, tables, session_vars >>

\* render_recommendation_step with the checkbox and the slider as the user
\* left them: both engine calls and update_state(visualization_seats=...)
RenderRecommendationStep ==
    /\ pc = "wizard" /\ step = 5
    /\ \E returned \in {calculate_costs(infrastructure, selected_sources, volume_estimates)},
          seats \in WizardSeats, exclude \in BOOLEAN :
          LET first == calculate_costs_leaves(infrastructure, selected_sources,
                           volume_estimates, tables)
              second == get_stack_recommendations_leaves(returned, first.infrastructure,
                            first.tables, exclude)
          IN  /\ exclude_modeling' = exclude
              /\ visualization_seats' = seats
              /\ recommendations' =
                     get_stack_recommendations(returned, first.infrastructure, seats, exclude)
              /\ costs' = second.costs
              /\ infrastructure' = second.infrastructure
              /\ selected_sources' = first.selected_sources
              /\ volume_estimates' = first.volume_estimates
              /\ tables' = second.tables
    /\ UNCHANGED << pc, step, other_call_vars, session_vars >>

WizardNext ==
    \/ InfrastructureNext
    \/ DataSourcesBack
    \/ DataSourcesNext
    \/ VolumeBack
    \/ VolumeNext
    \/ ReviewBack
    \/ ReviewNext
    \/ RenderRecommendationStep

WizardSpec == WizardInit /\ [][WizardNext]_vars

---------------------------------------------------------------------------
\* The functions of state.py called on their own.  The wizard actions above
\* hold the attributes of the AppState in variables; here the session mapping
\* itself is the state, so that the "state" key can be missing and the set of
\* attributes is part of what a call can change.

\* The keyword arguments update_state is called with: those of app.py, an
\* empty call, and names that are no attributes of AppState.
KwargsChoices ==
    {EmptyDict,
     [step |-> 2],
     [step |-> 3, selected_sources |-> << "product" >>],
     [step |-> 4, volume_estimates |-> [product |-> EstimateSmall]],
     [step |-> 5],
     [infrastructure |-> [type |-> "existing", provider |-> "aws", preferred_provider |-> None]],
     [visualization_seats |-> 10],
     [excluded_components |-> << "modeling" >>],
     [theme |-> "dark"],
     [step |-> 1, theme |-> "dark", visualization_seats |-> MaxSeats]}

\* A new browser session: st.session_state is empty
SessionInit ==
    /\ pc = "session"
    /\ session_state = EmptyDict
    /\ kwargs = EmptyDict
    /\ infrastructure = EmptyDict
    /\ selected_sources = <<>>
    /\ volume_estimates = EmptyDict
    /\ costs = NotCalled
    /\ visualization_seats = MinSeats
    /\ exclude_modeling = FALSE
    /\ recommendations = NotCalled
    /\ data_volume = 0
    /\ growth_rate = 0
    /\ cloud_provider = None
    /\ tool = None
    /\ monthly_records = 0
    /\ extraction_cost = NotCalled
    /\ step = 1
    /\ tables = ModuleTables

\* init_session_state(), as main() calls it on every run
InitSessionState ==
    /\ pc \in {"session", "init_session_state", "update_state"}
    /\ session_state' = init_session_state(session_state)
    /\ pc' = "init_session_state"
    /\ UNCHANGED << kwargs, infrastructure, selected_sources, volume_estimates, step,
                    review_vars, other_call_vars, tables >>

\* update_state(**kw); st.session_state.state has to exist
UpdateState ==
    /\ pc \in {"init_session_state", "update_state"}
    /\ "state" \in DOMAIN session_state
    /\ \E kw \in KwargsChoices :
          /\ session_state' = update_state(session_state, kw)
          /\ kwargs' = kw
    /\ pc' = "update_state"
    /\ UNCHANGED << infrastructure, selected_sources, volume_estimates, step,
                    review_vars, other_call_vars, tables >>

SessionNext == InitSessionState \/ UpdateState

SessionSpec == SessionInit /\ [][SessionNext]_vars

---------------------------------------------------------------------------
\* Properties.

\* C1: for an infrastructure that names a catalog provider (in provider, or in
\* preferred_provider when provider is unset), get_stack_recommendations
\* returns three entries, one of each level simple, balanced and advanced,
\* and the entry at position 0 has level simple, whatever the totals are.
C1_ThreeLevelsSimpleFirst ==
    LET named == IF Get(infrastructure, "provider") # None
                 THEN Get(infrastructure, "provider")
                 ELSE Get(infrastructure, "preferred_provider")
    IN  (pc = "recommended" /\ named \in {"aws", "gcp", "azure"}) =>
            /\ ~Raised(recommendations)
            /\ Len(recommendations.list) = 3
            /\ \A level \in {"simple", "balanced", "advanced"} :
                   Cardinality({i \in 1..3 : recommendations.list[i].level = level}) = 1
            /\ recommendations.list[1].level = "simple"

\* C1 witness: a returned list whose first entry is simple although the
\* balanced entry is strictly cheaper.
C1_Witness ==
    /\ pc = "recommended"
    /\ ~Raised(recommendations)
    /\ recommendations.list[1].level = "simple"
    /\ \E i \in 2..3 :
          /\ recommendations.list[i].level = "balanced"
          /\ Less(recommendations.list[i].costs.total, recommendations.list[1].costs.total)

\* C2: with an infrastructure that supplies no recognized provider key
\* (empty, or provider and preferred_provider both unset or outside the
\* catalog), get_stack_recommendations falls back to aws and still returns
\* three recommendations; it does not fail.
C2_DefaultProviderNoFailure ==
    LET Recognized(v) == v \in {"aws", "gcp", "azure"}
    IN  (/\ pc = "recommended"
         /\ infrastructure # NoneDict
         /\ ~Recognized(Get(infrastructure, "provider"))
         /\ ~Recognized(Get(infrastructure, "preferred_provider"))) =>
            /\ ~Raised(recommendations)
            /\ Len(recommendations.list) = 3
            /\ \A i \in 1..3 : recommendations.list[i].stack.warehousing.name = "Snowflake"

\* C3: calculate_costs does not fail when infrastructure is None or empty, or
\* when the provider key it resolves is None or outside the catalog, and the
\* cloud_costs it returns are those of the aws rates for the same totals.
C3_MissingProviderUsesAws ==
    LET resolved == IF infrastructure["type"] = "existing"
                    THEN infrastructure["provider"]
                    ELSE infrastructure["preferred_provider"]
        unresolved == \/ infrastructure \in {NoneDict, EmptyDict}
                      \/ resolved \notin {"aws", "gcp", "azure"}
    IN  (pc = "costs" /\ unresolved) =>
            /\ ~Raised(costs)
            /\ costs.cloud_costs =
                   calculate_detailed_cloud_costs("aws", costs.total_storage_gb,
                       costs.total_records_per_month, 0)

\* C3 witness: a call with a missing infrastructure and a source with records.
C3_Witness ==
    /\ pc = "costs"
    /\ infrastructure = NoneDict
    /\ ~Raised(costs)
    /\ costs.total_records_per_month > 0
    /\ costs.cloud_costs.total_storage_cost # Zero

\* C4: the provider field of the CostBreakdown is a key of the provider
\* catalog, and it is the provider whose rates gave cloud_costs.
C4_ProviderFieldIsResolved ==
    (pc = "costs" /\ ~Raised(costs)) =>
        /\ costs.provider \in {"aws", "gcp", "azure"}
        /\ costs.cloud_costs =
               calculate_detailed_cloud_costs(costs.provider, costs.total_storage_gb,
                   costs.total_records_per_month, 0)

\* C5: the CostBreakdown decomposes additively: total_cost is
\* cloud_costs.total_cost plus the sum over the selected sources of their
\* breakdown processing_cost, processing_cost is that sum, and
\* storage_cost + compute_cost is cloud_costs.total_cost.
C5_AdditiveDecomposition ==
    LET sum_processing ==
            SumMoney([i \in 1..Len(selected_sources) |->
                         costs.breakdown[selected_sources[i]].processing_cost])
    IN  (pc = "costs" /\ ~Raised(costs)) =>
            /\ DOMAIN costs.breakdown = {selected_sources[i] : i \in 1..Len(selected_sources)}
            /\ costs.total_cost = Add(costs.cloud_costs.total_cost, sum_processing)
            /\ costs.processing_cost = sum_processing
            /\ Add(costs.storage_cost, costs.compute_cost) = costs.cloud_costs.total_cost

\* C5 witness: two selected sources, each with a processing cost of its own.
C5_Witness ==
    /\ pc = "costs"
    /\ ~Raised(costs)
    /\ Len(selected_sources) = 2
    /\ \A i \in 1..2 : costs.breakdown[selected_sources[i]].processing_cost # Zero
    /\ costs.breakdown[selected_sources[1]].processing_cost
           # costs.breakdown[selected_sources[2]].processing_cost

\* C6 as stated: with no selected sources calculate_costs returns, and every
\* total of the CostBreakdown is zero, compute_cost and total_cost included.
C6_AllTotalsZero ==
    (pc = "costs" /\ selected_sources = <<>>) =>
        /\ ~Raised(costs)
        /\ costs.total_storage_gb = 0
        /\ costs.total_records_per_month = 0
        /\ costs.storage_cost = Zero
        /\ costs.compute_cost = Zero
        /\ costs.processing_cost = Zero
        /\ costs.total_cost = Zero

\* C6 as amended: with no selected sources calculate_costs returns; the
\* storage size, the record total, storage_cost and processing_cost are zero,
\* and compute_cost and total_cost are both the always-on instance cost of
\* the provider whose rates are used (its medium cost_per_hour * 720; aws
\* when the resolved key is no catalog key).
C6_ZeroExceptAlwaysOnCompute ==
    LET used == IF costs.provider \in {"aws", "gcp", "azure"} THEN costs.provider ELSE "aws"
        always_on == Money(CLOUD_PROVIDERS[used].compute.instances.medium.cost_per_hour
                               * 720 * 10, 0, 0)
    IN  (pc = "costs" /\ selected_sources = <<>>) =>
            /\ ~Raised(costs)
            /\ costs.total_storage_gb = 0
            /\ costs.total_records_per_month = 0
            /\ costs.storage_cost = Zero
            /\ costs.processing_cost = Zero
            /\ costs.compute_cost = always_on
            /\ costs.total_cost = always_on
            /\ always_on # Zero

\* C6 witness: a call with no selected sources (and estimates nobody selected)
\* that returned a non-zero total.
C6_Witness ==
    /\ pc = "costs"
    /\ selected_sources = <<>>
    /\ volume_estimates # EmptyDict
    /\ ~Raised(costs)
    /\ costs.total_cost = Money(6840000, 0, 0)

\* C7: the warehousing tool of the stacks is, for azure, the one of BigQuery
\* and Snowflake with the least base_price + complexity*100; for aws it is
\* Snowflake, for gcp BigQuery; and the three stacks carry the same tool.
C7_WarehousingChoice ==
    LET provider == IF Get(infrastructure, "provider") # None
                    THEN Get(infrastructure, "provider")
                    ELSE Get(infrastructure, "preferred_provider")
        Score(t) == t.base_price + t.complexity * 100
        candidates == {TOOLS_DATA.warehousing[i] : i \in 1..Len(TOOLS_DATA.warehousing)}
        azure_pair == {t \in candidates : t.name \in {"BigQuery", "Snowflake"}}
        chosen == recommendations.list[1].stack.warehousing
    IN  (pc = "recommended" /\ ~Raised(recommendations)) =>
            /\ \A i \in 1..3 : recommendations.list[i].stack.warehousing = chosen
            /\ provider = "aws" => chosen.name = "Snowflake"
            /\ provider = "gcp" => chosen.name = "BigQuery"
            /\ provider = "azure" =>
                   chosen \in azure_pair /\ \A t \in azure_pair : Score(chosen) <= Score(t)

\* C8: recommend_cloud_provider follows the decision table: gcp for growth
\* over 50 (both volume halves), aws for volume over 10,000,000 and growth at
\* most 50, azure for volume at most 10,000,000 and growth at most 50.
C8_DecisionTable ==
    pc = "provider" =>
        /\ (data_volume > 10000000 /\ growth_rate > 50) => cloud_provider = "gcp"
        /\ (data_volume > 10000000 /\ growth_rate <= 50) => cloud_provider = "aws"
        /\ (data_volume <= 10000000 /\ growth_rate > 50) => cloud_provider = "gcp"
        /\ (data_volume <= 10000000 /\ growth_rate <= 50) => cloud_provider = "azure"
        /\ cloud_provider \in {"aws", "gcp", "azure"}

\* C8 witness: the call at both boundary values, which gives azure.
C8_Witness ==
    /\ pc = "provider"
    /\ data_volume = 10000000
    /\ growth_rate = 50
    /\ cloud_provider = "azure"

\* C9: with exclude_modeling no recommendation has a modeling key in its
\* stack or in its costs; without it every recommendation has one in both.
C9_ModelingOmitted ==
    (pc = "recommended" /\ ~Raised(recommendations)) =>
        \A i \in 1..Len(recommendations.list) :
            LET rec == recommendations.list[i]
            IN  IF exclude_modeling
                THEN "modeling" \notin DOMAIN rec.stack /\ "modeling" \notin DOMAIN rec.costs
                ELSE "modeling" \in DOMAIN rec.stack /\ "modeling" \in DOMAIN rec.costs

\* C9 witness: a returned list computed with exclude_modeling set.
C9_Witness ==
    /\ pc = "recommended"
    /\ exclude_modeling
    /\ ~Raised(recommendations)
    /\ Len(recommendations.list) = 3
    /\ DOMAIN recommendations.list[2].stack = {"extraction", "warehousing", "visualization"}

C13_ExtractionByLevel ==
    LET catalog == {TOOLS_DATA.extraction[k] : k \in 1..Len(TOOLS_DATA.extraction)}
        light == {t \in catalog : t.name \in {"Airbyte", "Stitch"}}
        premium == {t \in catalog : t.name \in {"Fivetran", "Rivery"}}
        Of(level) == {recommendations.list[i].stack.extraction :
                          i \in {j \in 1..Len(recommendations.list) :
                                     recommendations.list[j].level = level}}
    IN  (pc = "recommended" /\ ~Raised(recommendations)) =>
            /\ \A e \in Of("simple") :
                  /\ e \in light
                  /\ \A t \in light :
                        e.base_price + e.complexity * 50 <= t.base_price + t.complexity * 50
            /\ \A e \in Of("balanced") :
                  e \in premium /\ \A t \in premium : e.base_price <= t.base_price
            /\ \A e \in Of("advanced") :
                  e \in premium /\ \A t \in premium : e.base_price >= t.base_price
            /\ \A b \in Of("balanced"), a \in Of("advanced") :
                  b.name # a.name /\ b.base_price <= a.base_price
            /\ \A level \in {"simple", "balanced", "advanced"} : Cardinality(Of(level)) = 1

\* C13 witness: a returned list with Stitch, Rivery and Fivetran as the
\* extraction tools of the simple, balanced and advanced stacks.
C13_Witness ==
    /\ pc = "recommended"
    /\ ~Raised(recommendations)
    /\ \E i, j, k \in 1..3 :
          /\ recommendations.list[i].level = "simple"
          /\ recommendations.list[i].stack.extraction.name = "Stitch"
          /\ recommendations.list[j].level = "balanced"
          /\ recommendations.list[j].stack.extraction.name = "Rivery"
          /\ recommendations.list[j].stack.extraction.base_price = 200
          /\ recommendations.list[k].level = "advanced"
          /\ recommendations.list[k].stack.extraction.name = "Fivetran"
          /\ recommendations.list[k].stack.extraction.base_price = 500

\* C14: the modeling tool of the simple stack has the least base_price of the
\* modeling catalog, that of the advanced stack the greatest complexity, and
\* that of the balanced stack stands second (index 1) when the catalog is
\* sorted ascending by base_price + complexity*100.
C14_ModelingByLevel ==
    LET catalog == TOOLS_DATA.modeling
        Rank(t) == t.base_price + t.complexity * 100
        Of(level) == {recommendations.list[i].stack.modeling :
                          i \in {j \in 1..Len(recommendations.list) :
                                     recommendations.list[j].level = level}}
        InCatalog(m) == \E k \in 1..Len(catalog) : catalog[k] = m
    IN  (pc = "recommended" /\ ~Raised(recommendations) /\ ~exclude_modeling) =>
            /\ \A m \in Of("simple") :
                  InCatalog(m) /\ \A k \in 1..Len(catalog) : m.base_price <= catalog[k].base_price
            /\ \A m \in Of("advanced") :
                  InCatalog(m) /\ \A k \in 1..Len(catalog) : m.complexity >= catalog[k].complexity
            /\ \A m \in Of("balanced") :
                  /\ InCatalog(m)
                  /\ Cardinality({k \in 1..Len(catalog) : Rank(catalog[k]) < Rank(m)}) <= 1
                  /\ Cardinality({k \in 1..Len(catalog) : Rank(catalog[k]) <= Rank(m)}) >= 2
            /\ \A level \in {"simple", "balanced", "advanced"} : Cardinality(Of(level)) = 1

\* C14 witness: a returned list with modeling, where the simple and the
\* advanced stacks have dbt and the balanced stack has Dataform.
C14_Witness ==
    /\ pc = "recommended"
    /\ ~Raised(recommendations)
    /\ ~exclude_modeling
    /\ \E i, j, k \in 1..3 :
          /\ recommendations.list[i].level = "simple"
          /\ recommendations.list[i].stack.modeling.name = "dbt"
          /\ recommendations.list[j].level = "balanced"
          /\ recommendations.list[j].stack.modeling.name = "Dataform"
          /\ recommendations.list[k].level = "advanced"
          /\ recommendations.list[k].stack.modeling.name = "dbt"

\* C15: calculate_detailed_cloud_costs returns three storage-tier costs for
\* each provider: 70 %, 20 % and 10 % of storage_gb at the provider's hot,
\* warm and cold rates; two compute costs: the medium instance's
\* cost_per_hour * 720 and monthly_records / 1,000,000 * data_processing;
\* and total_cost is the sum of the three storage and the two compute costs.
C15_CloudCosts ==
    LET used == IF costs.provider \in {"aws", "gcp", "azure"} THEN costs.provider ELSE "aws"
        rates == CLOUD_PROVIDERS[used]
        hot == IF used = "azure" THEN rates.storage.hot ELSE rates.storage.standard
        warm == IF used = "aws" THEN rates.storage.infrequent_access
                ELSE IF used = "gcp" THEN rates.storage.nearline ELSE rates.storage.cool
        cold == IF used = "aws" THEN rates.storage.glacier
                ELSE IF used = "gcp" THEN rates.storage.coldline ELSE rates.storage.archive
        size == costs.total_storage_gb
        hot_cost == StorageUnits(size, 7 * hot.cost_per_gb)
        warm_cost == StorageUnits(size, 2 * warm.cost_per_gb)
        cold_cost == StorageUnits(size, 1 * cold.cost_per_gb)
        instance_cost == Money(rates.compute.instances.medium.cost_per_hour * 720 * 10, 0, 0)
        processing == Money(0, costs.total_records_per_month * rates.compute.data_processing, 0)
        cc == costs.cloud_costs
    IN  (pc = "costs" /\ ~Raised(costs)) =>
            /\ Cardinality(DOMAIN cc.storage_costs) = 3
            /\ \E h, w, c \in DOMAIN cc.storage_costs :
                  /\ Cardinality({h, w, c}) = 3
                  /\ cc.storage_costs[h] = hot_cost
                  /\ cc.storage_costs[w] = warm_cost
                  /\ cc.storage_costs[c] = cold_cost
            /\ DOMAIN cc.compute_costs = {"instance", "processing"}
            /\ cc.compute_costs.instance = instance_cost
            /\ cc.compute_costs.processing = processing
            /\ cc.total_storage_cost = Add(hot_cost, Add(warm_cost, cold_cost))
            /\ cc.total_compute_cost = Add(instance_cost, processing)
            /\ cc.total_cost =
                   Add(Add(hot_cost, Add(warm_cost, cold_cost)), Add(instance_cost, processing))

\* C15 witness: the costs of gcp and of azure for a storage size and a record
\* count that are not zero, with three distinct tier costs.
C15_Witness ==
    /\ pc = "costs"
    /\ ~Raised(costs)
    /\ costs.provider \in {"gcp", "azure"}
    /\ costs.total_storage_gb > 1048576
    /\ costs.total_records_per_month > 1000000
    /\ Cardinality({costs.cloud_costs.storage_costs[k] :
                        k \in DOMAIN costs.cloud_costs.storage_costs}) = 3
    /\ costs.cloud_costs.compute_costs.processing # Zero

\* C16: for every selected source whose growth is 0 or missing,
\* breakdown[source] has monthly_records = daily * 30, storage_gb =
\* (historical + daily*30) / (1024*1024) and processing_cost = daily * 30 *
\* the category's cost_per_record; transactional with daily 1000, historical
\* 10000 and growth 0 has 30000 monthly records and a processing cost of 3.0.
\* (storage_gb is counted in units of 1/(1024*1024) GB, money in 10^-5 $.)
C16_NoGrowthFigures ==
    (pc = "costs" /\ ~Raised(costs)) =>
        \A i \in 1..Len(selected_sources) :
            LET source == selected_sources[i]
                given == IF source \in DOMAIN volume_estimates
                         THEN volume_estimates[source] ELSE EmptyDict
                daily == IF "daily" \in DOMAIN given THEN given.daily ELSE 0
                historical == IF "historical" \in DOMAIN given THEN given.historical ELSE 0
                no_growth == "growth" \notin DOMAIN given \/ given.growth = 0
                entry == costs.breakdown[source]
            IN  /\ no_growth =>
                    /\ entry.monthly_records = daily * 30
                    /\ entry.storage_gb = historical + daily * 30
                    /\ entry.processing_cost =
                           Money(daily * 30 * DATA_CATEGORIES[source].cost_per_record, 0, 0)
                /\ (/\ source = "transactional"
                    /\ given = [daily |-> 1000, historical |-> 10000, growth |-> 0]) =>
                    /\ entry.monthly_records = 30000
                    /\ entry.storage_gb = 40000
                    /\ entry.processing_cost = Money(300000, 0, 0)

\* C16 witness: a call with transactional at daily 1000, historical 10000,
\* growth 0, and with customer given a daily figure only.
C16_Witness ==
    /\ pc = "costs"
    /\ ~Raised(costs)
    /\ selected_sources = << "transactional", "customer" >>
    /\ {"transactional", "customer"} \subseteq DOMAIN volume_estimates
    /\ volume_estimates["transactional"] = [daily |-> 1000, historical |-> 10000, growth |-> 0]
    /\ DOMAIN volume_estimates["customer"] = {"daily"}
    /\ costs.breakdown["transactional"].monthly_records = 30000
    /\ costs.breakdown["customer"].monthly_records = 210
    /\ costs.breakdown["customer"].processing_cost = Money(4200, 0, 0)

\* C17: in every reachable state of the wizard, whatever Next and Back
\* presses and re-selections of sources led to it, every key of the
\* session's volume_estimates is one of the session's selected_sources.
C17_EstimatesOnlyForSelected ==
    pc = "wizard" =>
        DOMAIN volume_estimates \subseteq {selected_sources[i] : i \in 1..Len(selected_sources)}

\* C19: a returned recommendation has a modeling_note that is not None
\* exactly when its extraction tool is Rivery; the note is the value of the
\* recommendation's modeling_note key, and the costs mapping has no such key.
C19_NoteIffRivery ==
    (pc = "recommended" /\ ~Raised(recommendations)) =>
        \A i \in 1..Len(recommendations.list) :
            LET rec == recommendations.list[i]
            IN  /\ "modeling_note" \in DOMAIN rec
                /\ rec.modeling_note # None <=> rec.stack.extraction.name = "Rivery"
                /\ "modeling_note" \notin DOMAIN rec.costs
                /\ DOMAIN rec.costs \subseteq
                       {"extraction", "warehousing", "visualization", "modeling", "total"}

\* C19 witness: a list returned without the modeling layer in which the
\* balanced stack, with Rivery, has the note and the other two have none.
C19_Witness ==
    /\ pc = "recommended"
    /\ ~Raised(recommendations)
    /\ exclude_modeling
    /\ \E i \in 1..3 :
          /\ recommendations.list[i].level = "balanced"
          /\ recommendations.list[i].stack.extraction.name = "Rivery"
          /\ recommendations.list[i].modeling_note = modeling_note_text
          /\ \A j \in 1..3 \ {i} : recommendations.list[j].modeling_note = None

\* C20: the simple stack is the cheapest: in every returned list, for every
\* record total, seat count, provider and exclude_modeling value, the total
\* of the simple recommendation is at most the total of the balanced one and
\* at most the total of the advanced one.
C20_SimpleIsCheapest ==
    (pc = "recommended" /\ ~Raised(recommendations)) =>
        \A i, j \in 1..Len(recommendations.list) :
            (/\ recommendations.list[i].level = "simple"
             /\ recommendations.list[j].level \in {"balanced", "advanced"}) =>
                ~Less(recommendations.list[j].costs.total, recommendations.list[i].costs.total)

C21_ExactOrder ==
    (/\ pc = "recommended"
     /\ StackProvider(infrastructure) \in {"aws", "gcp", "azure"}) =>
        /\ ~Raised(recommendations)
        /\ [i \in 1..Len(recommendations.list) |-> recommendations.list[i].level]
               = << "simple", "balanced", "advanced" >>
        /\ ~Less(recommendations.list[3].costs.total, recommendations.list[2].costs.total)

\* C21 witness: two returned lists in the order simple, balanced, advanced:
\* with 50 seats, where the simple total is the least, and with 2 seats and
\* no modeling layer, where the balanced total is below the simple one.
C21_Witness ==
    /\ pc = "recommended"
    /\ ~Raised(recommendations)
    /\ recommendations.list[2].level = "balanced"
    /\ recommendations.list[3].level = "advanced"
    /\ \/ /\ visualization_seats = 50
          /\ Less(recommendations.list[1].costs.total, recommendations.list[2].costs.total)
       \/ /\ visualization_seats = 2
          /\ exclude_modeling
          /\ Less(recommendations.list[2].costs.total, recommendations.list[1].costs.total)
    /\ Less(recommendations.list[2].costs.total, recommendations.list[3].costs.total)
    /\ costs.total_records_per_month > 0

\* C22: for every infrastructure of the data model (type existing or new,
\* provider and preferred_provider each unset or a catalog key), the
\* provider whose rates calculate_costs used for the CostBreakdown is the
\* provider get_stack_recommendations chose the warehousing tool for, and
\* neither call fails.
C22_SameProviderResolved ==
    LET catalog_or_unset == {None, "aws", "gcp", "azure"}
        allowed == /\ infrastructure \notin {NoneDict, EmptyDict}
                   /\ infrastructure.provider \in catalog_or_unset
                   /\ infrastructure.preferred_provider \in catalog_or_unset
        rates_of == IF costs.provider \in {"aws", "gcp", "azure"} THEN costs.provider ELSE "aws"
        stack_of == IF infrastructure.provider # None
                    THEN infrastructure.provider
                    ELSE infrastructure.preferred_provider
    IN  (pc = "recommended" /\ allowed) =>
            /\ ~Raised(costs)
            /\ ~Raised(recommendations)
            /\ rates_of = stack_of
            /\ costs.cloud_costs =
                   calculate_detailed_cloud_costs(stack_of, costs.total_storage_gb,
                       costs.total_records_per_month, 0)
            /\ recommendations.list[1].stack.warehousing =
                   warehousing_options(rates_of)[1]

\* C23: in every wizard state with step >= 2 the session's infrastructure
\* has type existing or new and exactly one of provider and
\* preferred_provider set, to a key of the provider catalog: provider when
\* the type is existing, preferred_provider when it is new; and at step 5
\* neither engine call fails: three recommendations are returned.
C23_InfrastructureWellFormed ==
    (pc = "wizard" /\ step >= 2) =>
        /\ DOMAIN infrastructure = {"type", "provider", "preferred_provider"}
        /\ infrastructure.type \in {"existing", "new"}
        /\ infrastructure.type = "existing" =>
               /\ infrastructure.provider \in DOMAIN CLOUD_PROVIDERS
               /\ infrastructure.preferred_provider = None
        /\ infrastructure.type = "new" =>
               /\ infrastructure.preferred_provider \in DOMAIN CLOUD_PROVIDERS
               /\ infrastructure.provider = None
        /\ (step = 5 /\ recommendations # NotCalled) =>
               /\ ~Raised(costs)
               /\ ~Raised(recommendations)
               /\ Len(recommendations.list) = 3

\* C23 witness: step 5 of a new setup that prefers azure, with the three
\* recommendations returned.
C23_Witness ==
    /\ pc = "wizard"
    /\ step = 5
    /\ infrastructure = [type |-> "new", provider |-> None, preferred_provider |-> "azure"]
    /\ recommendations # NotCalled
    /\ ~Raised(recommendations)
    /\ recommendations.list[1].stack.warehousing.name = "Snowflake"

\* C24: in every wizard state with step >= 4, whatever Next and Back presses
\* and re-selections led to it, selected_sources is not empty and the keys
\* of volume_estimates are exactly the selected sources; the costs computed
\* at step 5 have a breakdown entry for each of them, from its own estimate.
C24_EstimatesMatchSelection ==
    LET selected == {selected_sources[i] : i \in 1..Len(selected_sources)}
    IN  (pc = "wizard" /\ step >= 4) =>
            /\ selected_sources # <<>>
            /\ DOMAIN volume_estimates = selected
            /\ \A s \in selected : DOMAIN volume_estimates[s] = {"daily", "historical", "growth"}
            /\ (step = 5 /\ costs # NotCalled) =>
                   /\ ~Raised(costs)
                   /\ DOMAIN costs.breakdown = selected
                   /\ DOMAIN costs.volume_estimates = selected

\* C24 witness: step 5 with two selected sources, each with an estimate of
\* its own, and the costs computed from them.
C24_Witness ==
    /\ pc = "wizard"
    /\ step = 5
    /\ costs # NotCalled
    /\ ~Raised(costs)
    /\ Len(selected_sources) = 2
    /\ DOMAIN volume_estimates = {selected_sources[1], selected_sources[2]}
    /\ volume_estimates[selected_sources[1]] # volume_estimates[selected_sources[2]]
    /\ costs.breakdown[selected_sources[1]].monthly_records
           # costs.breakdown[selected_sources[2]].monthly_records

\* C25: the wizard's step starts at 1 and is always in 1..5; every change of
\* it is by +1 (Next) or -1 (Back); it never leaves 5 once there (step 5 has
\* no navigation), never goes below 1 (step 1 has no Back), and becomes 5
\* only from 4.
C25_StepNavigation ==
    /\ step = 1
    /\ [](step \in 1..5)
    /\ [][step' # step =>
             /\ step' = step + 1 \/ step' = step - 1
             /\ step # 5
             /\ step' = 5 => step = 4
             /\ step' \in 1..5]_vars

\* C25 witness: step 5, reached and rendered with the slider at 50.
C25_Witness ==
    /\ pc = "wizard"
    /\ step = 5
    /\ recommendations # NotCalled
    /\ visualization_seats = 50

\* C26: init_session_state makes the state (step 1, empty infrastructure,
\* selected_sources and volume_estimates, 1 seat) only when the session has
\* none, and on every later call leaves the session as it is; update_state
\* sets the attributes named in its arguments to the values given, leaves
\* every other attribute as it was, and adds no attribute for a name the
\* state does not have.
C26_SessionStateFunctions ==
    [][/\ pc' = "init_session_state" =>
             IF "state" \in DOMAIN session_state
             THEN session_state' = session_state
             ELSE /\ DOMAIN session_state' = DOMAIN session_state \cup {"state"}
                  /\ session_state'.state.step = 1
                  /\ session_state'.state.infrastructure = EmptyDict
                  /\ session_state'.state.selected_sources = << >>
                  /\ session_state'.state.volume_estimates = EmptyDict
                  /\ session_state'.state.visualization_seats = 1
       /\ pc' = "update_state" =>
             /\ DOMAIN session_state' = DOMAIN session_state
             /\ DOMAIN session_state'.state = DOMAIN session_state.state
             /\ \A a \in DOMAIN session_state.state :
                   session_state'.state[a] =
                       IF a \in DOMAIN kwargs' THEN kwargs'[a] ELSE session_state.state[a]
      ]_vars

\* C26 witness: init_session_state has run again on a session whose state
\* was moved to step 4 with a source and its estimate, and whose last
\* update_state call was given a name that is no attribute.
C26_Witness ==
    /\ pc = "init_session_state"
    /\ "state" \in DOMAIN session_state
    /\ session_state.state.step = 4
    /\ session_state.state.selected_sources = << "product" >>
    /\ DOMAIN session_state.state.volume_estimates = {"product"}
    /\ "theme" \in DOMAIN kwargs
    /\ "theme" \notin DOMAIN session_state.state
    /\ session_state.state.visualization_seats = MaxSeats

====
